---- MODULE Spec2Model ----
(***************************************************************************)
(* Model of devices/SensorTag.go: construction of a SensorTag aggregate    *)
(* (NewSensorTag, newTemperatureSensor and its loadChars closure), the     *)
(* temperature sensor's operations (IsEnabled, Enable, Disable, Read) and  *)
(* the "changed" handler that NewSensorTag registers on the device.        *)
(*                                                                         *)
(* The transport (GetCharByUUID, ReadValue, WriteValue, IsConnected,       *)
(* Connect) is the environment: every call's outcome is an input.          *)
(***************************************************************************)
EXTENDS Integers, Sequences, FiniteSets, TLC

\* ------------------------------------------------------------------ bounds
\* Longest payload returned by a read of, or a notification from, the data
\* attribute.
MaxDataLen == 4

\* Most registrations made on the data attribute.
MaxRegistrations == 2
\* The calls of NewSensorTag on one device.
MaxCalls == 2

\* Bytes of a data payload.
DataBytes == {0, 16}

RECURSIVE SeqsUpTo(_, _)
SeqsUpTo(S, n) ==
  IF n = 0 THEN {<<>>}
  ELSE LET shorter == SeqsUpTo(S, n - 1)
       IN shorter \cup {Append(s, b) : s \in {t \in shorter : Len(t) = n - 1}, b \in S}

\* Values the config attribute may hold: none, 0 (disabled), 1 (the byte
\* Enable writes), 2, 0x82 alone (a varint cut short) and 0x82 0x00 (2 in two
\* bytes).
CfgValues == {<<>>, <<0>>, <<1>>, <<2>>, <<130>>, <<130, 0>>}
DataValues == SeqsUpTo(DataBytes, MaxDataLen)

\* --------------------------------------------------------------- constants
nil == "nil"
\* Errors and abnormal outcomes.
ErrTransport == "ErrTransport"                  \* an I/O error of the transport
ErrCfgNotFound == "Cannot find cfg characteristic"
ErrEOF == "EOF"
ErrUnexpectedEOF == "unexpected EOF"
Panic == "panic"                                \* a run-time panic, not an error value

\* sensorTagUUIDs, restricted to the entries newTemperatureSensor uses.
sensorTagUUIDs ==
  [n \in {"TemperatureData", "TemperatureConfig", "TemperaturePeriod"} |->
     CASE n = "TemperatureData" -> "AA01"
       [] n = "TemperatureConfig" -> "AA02"
       [] n = "TemperaturePeriod" -> "AA03"]

getUUID(name) == "F000" \o sensorTagUUIDs[name] \o "-0451-4000-B000-000000000000"

\* local `retry := 3` of newTemperatureSensor
retry == 3

\* Outcomes of one attribute lookup.
LookupOutcomes == {"found", "notfound", "error"}

\* dev.GetCharByUUID(uuid) under outcome `out`: the pair (char, err).
GetCharByUUID(uuid, out) ==
  CASE out = "found" -> [char |-> uuid, err |-> nil]
    [] out = "notfound" -> [char |-> nil, err |-> nil]
    [] out = "error" -> [char |-> nil, err |-> ErrTransport]

\* The zero value TemperatureSensor{}.
EmptySensor == [cfg |-> nil, data |-> nil, period |-> nil]

\* `if err != nil` after a lookup in loadChars.
LookupFailedNever(err) == FALSE
LookupFailed(err) == err # nil

\* A test that lets one more retry through.
RetriesExhaustedLate(t) == t = retry + 1
\* `if tries == retry` in loadChars.
RetriesExhausted(t) == t = retry

\* time.Second * time.Duration(5*tries), in seconds.
SleepSecondsFlat(t) == 5
SleepSeconds(t) == 5 * t

\* The tail of NewSensorTag: `if err != nil { return nil, err }`,
\* `s.Temperature = temp; return s, nil`.
NewSensorTagResultAlways(temp, err) ==
  [tag |-> "tag", Temperature |-> temp, err |-> err]
NewSensorTagResult(temp, err) ==
  IF err # nil THEN [tag |-> nil, Temperature |-> EmptySensor, err |-> err]
  ELSE [tag |-> "tag", Temperature |-> temp, err |-> nil]

\* ------------------------------------------------------------------ state
VARIABLES
  pc,        \* "idle": NewSensorTag not called; "loading": inside loadChars; "done": returned
  handlers,  \* number of "changed" handlers registered on the device
  tries,     \* local `tries` of newTemperatureSensor
  sleeps,    \* the delays slept so far, in seconds
  lookups,   \* the lookups made so far: <<uuid, outcome>>
  sensorErr, \* the error newTemperatureSensor returned
  ret,       \* what NewSensorTag returned: [tag, Temperature, err]
  cfgVal,    \* the value of the config attribute on the peripheral
  registrations, \* registrations made by s.data.Register() and not removed
  notifying, \* the data attribute's notifications are started
  last,      \* the last call made on the sensor or the handler
  prev       \* the call before it

vars == <<pc, handlers, tries, sleeps, lookups, sensorErr,
          ret, cfgVal, registrations, notifying, last, prev>>

\* A reading not produced.
NoValue == [whole |-> -1, frac128 |-> 0]

\* The record of one call: the operation, the error it returned (or Panic),
\* the boolean it returned, the ReadValue and WriteValue calls it made on the
\* config attribute, the ReadValue calls on the data attribute, the length of
\* the payload it decoded (-1: none), the reading it produced, the "data"
\* events it emitted, the Connect calls it made, what IsConnected reported,
\* the error Connect returned, the error of the Enable() it began with, the
\* Register calls and the StartNotify/StopNotify calls it made on the data
\* attribute, the two payload bytes it decoded, the object the notification
\* it handled came from, the config or data I/O call of IsEnabled, Enable,
\* Disable or Read that failed, the runs of the "changed" handler.
NoCall == [op |-> "none", err |-> nil, enabled |-> FALSE, reads |-> 0, writes |-> 0,
           dataReads |-> 0, plen |-> -1, amb |-> <<>>, value |-> NoValue, emits |-> 0,
           connects |-> 0, isConn |-> FALSE, connErr |-> nil,
           enableErr |-> nil, registers |-> 0, subCalls |-> 0, path |-> "",
           failed |-> "none", runs |-> 0]

\* What is kept of the call before the last one: a successful Enable or
\* Disable and the writes it made, a run of the handler on a Value
\* notification and the number of "data" events it emitted.
Brief(c) ==
  IF c.op \in {"Enable", "Disable"} /\ c.err = nil
    THEN [op |-> c.op, writes |-> c.writes, emits |-> 0]
  ELSE IF c.op = "changed:Value"
    THEN [op |-> c.op, writes |-> 0, emits |-> c.emits]
  ELSE [op |-> "other", writes |-> 0, emits |-> 0]

Init ==
  /\ pc = "idle"
  /\ handlers = 0
  /\ tries = 0
  /\ sleeps = <<>>
  /\ lookups = <<>>
  /\ sensorErr = nil
  /\ ret = [tag |-> nil, Temperature |-> EmptySensor, err |-> nil]
  /\ cfgVal \in CfgValues
  /\ registrations = 0
  /\ notifying = FALSE
  /\ last = NoCall
  /\ prev = Brief(NoCall)

\* A call is recorded.
Record(call) ==
  /\ last' = call
  /\ prev' = Brief(last)

\* ----------------------------------------------------------- construction
connectAlways(isConn, ok) ==
  [calls |-> 1, err |-> IF ok THEN nil ELSE ErrTransport]
\* The closure `connect` of NewSensorTag, dev.IsConnected() reporting isConn
\* and dev.Connect() succeeding iff ok: the Connect calls made and the error.
connect(isConn, ok) ==
  IF ~isConn
    THEN [calls |-> 1, err |-> IF ok THEN nil ELSE ErrTransport]
    ELSE [calls |-> 0, err |-> nil]

\* NewSensorTag up to the first call of loadChars: d.On("changed", ...),
\* connect(d) with its error dropped, s := new(SensorTag), tries := 0.  The
\* outcome of connect(d) is recorded as the last call.
NoResult == [tag |-> nil, Temperature |-> EmptySensor, err |-> nil]

\* The process runs: no panic has ended it.
Alive == last.err # Panic

\* A NewSensorTag that registers its handler only on a device that has none.
NewSensorTagOneHandler(isConn, ok) ==
  /\ pc \in {"idle", "done"}
  /\ handlers < MaxCalls
  /\ Alive
  /\ handlers' = IF handlers = 0 THEN 1 ELSE handlers
  /\ LET c == connect(isConn, ok)
     IN Record([NoCall EXCEPT !.op = "NewSensorTag", !.connects = c.calls,
                              !.isConn = isConn, !.connErr = c.err])
  /\ tries' = 0
  /\ pc' = "loading"
  /\ sleeps' = <<>> /\ lookups' = <<>> /\ sensorErr' = nil /\ ret' = NoResult
  /\ UNCHANGED <<cfgVal, registrations, notifying>>
\* A call of NewSensorTag on the device, the first one or one after an
\* earlier call has returned: every call registers its own handler and starts
\* with its own tries, lookups and result.
NewSensorTag(isConn, ok) ==
  /\ pc \in {"idle", "done"}
  /\ handlers < MaxCalls
  /\ Alive
  /\ handlers' = handlers + 1
  /\ LET c == connect(isConn, ok)
     IN Record([NoCall EXCEPT !.op = "NewSensorTag", !.connects = c.calls,
                              !.isConn = isConn, !.connErr = c.err])
  /\ tries' = 0
  /\ pc' = "loading"
  /\ sleeps' = <<>> /\ lookups' = <<>> /\ sensorErr' = nil /\ ret' = NoResult
  /\ UNCHANGED <<cfgVal, registrations, notifying>>

\* loadChars returns (temp, err) having made the lookups `looks`; NewSensorTag
\* returns in turn.
Return(temp, err, looks) ==
  /\ pc' = "done"
  /\ lookups' = lookups \o looks
  /\ sensorErr' = err
  /\ ret' = NewSensorTagResult(temp, err)
  /\ UNCHANGED <<tries, sleeps>>

\* One invocation of the closure loadChars, the lookups' outcomes being
\* co (config), do (data) and po (period).
loadChars(co, do, po) ==
  /\ pc = "loading"
  /\ LET cfgId == getUUID("TemperatureConfig")
         dataId == getUUID("TemperatureData")
         periodId == getUUID("TemperaturePeriod")
         cfg == GetCharByUUID(cfgId, co)
         data == GetCharByUUID(dataId, do)
         period == GetCharByUUID(periodId, po)
     IN IF LookupFailed(cfg.err)
          THEN Return(EmptySensor, cfg.err, <<<<cfgId, co>>>>)
        ELSE IF cfg.char = nil
          THEN IF RetriesExhausted(tries)
                 THEN Return(EmptySensor, ErrCfgNotFound, <<<<cfgId, co>>>>)
                 ELSE /\ tries' = tries + 1
                      /\ sleeps' = Append(sleeps, SleepSeconds(tries + 1))
                      /\ lookups' = Append(lookups, <<cfgId, co>>)
                      /\ UNCHANGED <<pc, sensorErr, ret>>
        ELSE IF LookupFailed(data.err)
          THEN Return(EmptySensor, data.err, <<<<cfgId, co>>, <<dataId, do>>>>)
        ELSE IF LookupFailed(period.err)
          THEN Return(EmptySensor, period.err,
                      <<<<cfgId, co>>, <<dataId, do>>, <<periodId, po>>>>)
        ELSE Return([cfg |-> cfg.char, data |-> data.char, period |-> period.char],
                    period.err,
                    <<<<cfgId, co>>, <<dataId, do>>, <<periodId, po>>>>)
  /\ UNCHANGED <<handlers, cfgVal, registrations, notifying, last, prev>>

\* ------------------------------------------------------ sensor operations
\* binary.ReadUvarint on bytes.NewBuffer(buf), from byte i (0-based) on, x
\* being the value so far and mult = 2^s.  A value of fewer than ten bytes
\* cannot overflow, so errOverflow is left out.
RECURSIVE ReadUvarintFrom(_, _, _, _)
ReadUvarintFrom(buf, i, x, mult) ==
  IF i >= Len(buf)
    THEN [x |-> x, err |-> IF i > 0 THEN ErrUnexpectedEOF ELSE ErrEOF]
  ELSE LET b == buf[i + 1]
       IN IF b < 128
            THEN [x |-> x + b * mult, err |-> nil]
            ELSE ReadUvarintFrom(buf, i + 1, x + (b % 128) * mult, mult * 128)

ReadUvarint(buf) == ReadUvarintFrom(buf, 0, 0, 1)

\* binary.ReadVarint: the zig-zag decoding of ReadUvarint's result,
\* x := int64(ux >> 1); if ux&1 != 0 { x = ^x }.
ReadVarint(buf) ==
  LET u == ReadUvarint(buf)
      x == u.x \div 2
  IN [x |-> IF u.x % 2 # 0 THEN -x - 1 ELSE x, err |-> u.err]

\* The I/O call of an operation that fails, if any: the ReadValue or the
\* WriteValue of the config attribute, or the ReadValue of the data attribute.
Failures == {"none", "cfgRead", "cfgWrite", "dataRead"}

\* TemperatureSensor.IsEnabled on config value `val`.
\* The result carries the ReadValue calls made and the I/O call that failed.
IsEnabled(val, fail) ==
  IF fail = "cfgRead"
    THEN [enabled |-> FALSE, err |-> ErrTransport, reads |-> 1, failed |-> "cfgRead"]
  ELSE LET v == ReadVarint(val)
       IN IF v.err # nil
            THEN [enabled |-> FALSE, err |-> v.err, reads |-> 1, failed |-> "none"]
          ELSE [enabled |-> (v.x = 1), err |-> nil, reads |-> 1, failed |-> "none"]

\* An Enable that goes on to the write after IsEnabled has failed.
EnableWritesAfterFailedRead(val, fail) ==
  LET e == IsEnabled(val, fail)
  IN IF e.err = nil /\ e.enabled
       THEN [err |-> nil, reads |-> e.reads, writes |-> 0, cfg |-> val, failed |-> "none"]
     ELSE IF fail = "cfgWrite"
       THEN [err |-> ErrTransport, reads |-> e.reads, writes |-> 1, cfg |-> val,
             failed |-> "cfgWrite"]
     ELSE [err |-> e.err, reads |-> e.reads, writes |-> 1, cfg |-> <<1>>,
           failed |-> e.failed]
\* TemperatureSensor.Enable on config value `val`: the error returned, the
\* ReadValue and WriteValue calls made on the config attribute, the config
\* value left and the I/O call that failed.
Enable(val, fail) ==
  LET e == IsEnabled(val, fail)
  IN IF e.err # nil
       THEN [err |-> e.err, reads |-> e.reads, writes |-> 0, cfg |-> val,
             failed |-> e.failed]
     ELSE IF e.enabled
       THEN [err |-> nil, reads |-> e.reads, writes |-> 0, cfg |-> val, failed |-> "none"]
     ELSE IF fail = "cfgWrite"
       THEN [err |-> ErrTransport, reads |-> e.reads, writes |-> 1, cfg |-> val,
             failed |-> "cfgWrite"]
     ELSE [err |-> nil, reads |-> e.reads, writes |-> 1, cfg |-> <<1>>, failed |-> "none"]

\* TemperatureSensor.Disable.
Disable(val, fail) ==
  LET e == IsEnabled(val, fail)
  IN IF e.err # nil
       THEN [err |-> e.err, reads |-> e.reads, writes |-> 0, cfg |-> val,
             failed |-> e.failed]
     ELSE IF ~e.enabled
       THEN [err |-> nil, reads |-> e.reads, writes |-> 0, cfg |-> val, failed |-> "none"]
     ELSE IF fail = "cfgWrite"
       THEN [err |-> ErrTransport, reads |-> e.reads, writes |-> 1, cfg |-> val,
             failed |-> "cfgWrite"]
     ELSE [err |-> nil, reads |-> e.reads, writes |-> 1, cfg |-> <<0>>, failed |-> "none"]

\* calcTmpLocal: float64(raw) / 128.0, exact for a uint16, as the whole
\* degrees and the remaining 1/128ths.
calcTmpLocal(raw) == [whole |-> raw \div 128, frac128 |-> raw % 128]

\* binary.LittleEndian.Uint16(b): `_ = b[1]` panics on fewer than two bytes.
Uint16(b) ==
  IF Len(b) < 2 THEN [panic |-> TRUE, v |-> 0]
  ELSE [panic |-> FALSE, v |-> b[1] + 256 * b[2]]

\* The decoding of the die reading b[0:2] in place of the ambient one.
AmbientOfDie(b) ==
  IF Len(b) < 4 THEN [panic |-> TRUE, value |-> NoValue]
  ELSE [panic |-> FALSE, value |-> calcTmpLocal(Uint16(b).v)]
\* amb := binary.LittleEndian.Uint16(b[2:]); calcTmpLocal(uint16(amb)).
\* b[2:] panics when b has fewer than two bytes.
Ambient(b) ==
  IF Len(b) < 2 THEN [panic |-> TRUE, value |-> NoValue]
  ELSE LET amb == Uint16(SubSeq(b, 3, Len(b)))
       IN IF amb.panic THEN [panic |-> TRUE, value |-> NoValue]
          ELSE [panic |-> FALSE, value |-> calcTmpLocal(amb.v)]

\* A caller holds a sensor only once NewSensorTag has returned an aggregate.
HasSensor == pc = "done" /\ ret.tag # nil /\ Alive

Frame == UNCHANGED <<pc, handlers, tries, sleeps, lookups, sensorErr, ret>>

\* The subscription state of the data attribute is left alone.
SameSubscription == UNCHANGED <<registrations, notifying>>

DoIsEnabled(fail) ==
  /\ HasSensor
  /\ LET e == IsEnabled(cfgVal, fail)
     IN Record([NoCall EXCEPT !.op = "IsEnabled", !.err = e.err, !.failed = e.failed,
                              !.enabled = e.enabled, !.reads = e.reads])
  /\ UNCHANGED cfgVal
  /\ SameSubscription
  /\ Frame

DoEnable(fail) ==
  /\ HasSensor
  /\ LET e == Enable(cfgVal, fail)
     IN /\ Record([NoCall EXCEPT !.op = "Enable", !.err = e.err, !.failed = e.failed,
                                 !.reads = e.reads, !.writes = e.writes])
        /\ cfgVal' = e.cfg
  /\ SameSubscription
  /\ Frame

DoDisable(fail) ==
  /\ HasSensor
  /\ LET e == Disable(cfgVal, fail)
     IN /\ Record([NoCall EXCEPT !.op = "Disable", !.err = e.err, !.failed = e.failed,
                                 !.reads = e.reads, !.writes = e.writes])
        /\ cfgVal' = e.cfg
  /\ SameSubscription
  /\ Frame

\* TemperatureSensor.Read, b being the payload the data attribute returns.
\* A nil s.data is dereferenced by ReadValue.
DoRead(fail, b) ==
  /\ HasSensor
  /\ LET e == Enable(cfgVal, fail)
         base == [NoCall EXCEPT !.op = "Read", !.reads = e.reads, !.writes = e.writes,
                                !.failed = e.failed]
         a == Ambient(b)
     IN /\ cfgVal' = e.cfg
        /\ IF e.err # nil THEN Record([base EXCEPT !.err = e.err])
           ELSE IF ret.Temperature.data = nil THEN Record([base EXCEPT !.err = Panic])
           ELSE IF fail = "dataRead"
             THEN Record([base EXCEPT !.err = ErrTransport, !.dataReads = 1,
                                      !.failed = "dataRead"])
           ELSE IF a.panic
             THEN Record([base EXCEPT !.err = Panic, !.dataReads = 1, !.plen = Len(b)])
           ELSE Record([base EXCEPT !.dataReads = 1, !.plen = Len(b),
                                    !.amb = SubSeq(b, 3, 4), !.value = a.value])
  /\ SameSubscription
  /\ Frame

\* ---------------------------------------------------------- notifications
\* The call of StartNotify/StopNotify that fails, if any.
NotifyFailures == {"none", "cfgRead", "cfgWrite", "register", "startNotify", "stopNotify"}

\* s.data.Register(): one more registration on the data attribute.
Register(n) == n + 1

\* The result of StartNotify/StopNotify when its Enable() returned e and
\* nothing was done on the data attribute.
NotifyBase(e, regs, notif) ==
  [err |-> e.err, enableErr |-> e.err, writes |-> e.writes, cfg |-> e.cfg,
   registers |-> 0, subCalls |-> 0, registrations |-> regs, notifying |-> notif]

\* TemperatureSensor.StartNotify on config value val and data handle data,
\* regs and notif being the subscription state of the data attribute.
StartNotify(val, data, fail, regs, notif) ==
  LET e == Enable(val, fail)
      base == NotifyBase(e, regs, notif)
  IN IF e.err # nil THEN base
     ELSE IF data = nil THEN [base EXCEPT !.err = Panic]
     ELSE IF fail = "register" THEN [base EXCEPT !.err = ErrTransport, !.registers = 1]
     ELSE IF fail = "startNotify"
       THEN [base EXCEPT !.err = ErrTransport, !.registers = 1, !.subCalls = 1,
                         !.registrations = Register(regs)]
     ELSE [base EXCEPT !.registers = 1, !.subCalls = 1,
                       !.registrations = Register(regs), !.notifying = TRUE]

\* TemperatureSensor.StopNotify.  The package variable `notifications` is
\* never assigned, so `close(notifications)` is not reached.
StopNotifyWithoutEnable(val, data, fail, regs, notif) ==
  LET base == NotifyBase([err |-> nil, writes |-> 0, cfg |-> val], regs, notif)
  IN IF data = nil THEN [base EXCEPT !.err = Panic]
     ELSE IF fail = "stopNotify" THEN [base EXCEPT !.err = ErrTransport, !.subCalls = 1]
     ELSE [base EXCEPT !.subCalls = 1, !.notifying = FALSE]
StopNotify(val, data, fail, regs, notif) ==
  LET e == Enable(val, fail)
      base == NotifyBase(e, regs, notif)
  IN IF e.err # nil THEN base
     ELSE IF data = nil THEN [base EXCEPT !.err = Panic]
     ELSE IF fail = "stopNotify" THEN [base EXCEPT !.err = ErrTransport, !.subCalls = 1]
     ELSE [base EXCEPT !.subCalls = 1, !.notifying = FALSE]

\* The record of a StartNotify/StopNotify call with result r.
NotifyCall(op, r) ==
  [NoCall EXCEPT !.op = op, !.err = r.err, !.enableErr = r.enableErr, !.reads = 1,
                 !.writes = r.writes, !.registers = r.registers, !.subCalls = r.subCalls]

DoStartNotify(fail) ==
  /\ HasSensor
  /\ registrations < MaxRegistrations
  /\ LET r == StartNotify(cfgVal, ret.Temperature.data, fail, registrations, notifying)
     IN /\ Record(NotifyCall("StartNotify", r))
        /\ cfgVal' = r.cfg
        /\ registrations' = r.registrations
        /\ notifying' = r.notifying
  /\ Frame

DoStopNotify(fail) ==
  /\ HasSensor
  /\ LET r == StopNotify(cfgVal, ret.Temperature.data, fail, registrations, notifying)
     IN /\ Record(NotifyCall("StopNotify", r))
        /\ cfgVal' = r.cfg
        /\ registrations' = r.registrations
        /\ notifying' = r.notifying
  /\ Frame

\* ------------------------------------------------------------ environment
\* Another party writes the config attribute.
ExternalWrite(v) ==
  /\ HasSensor
  /\ v # cfgVal
  /\ cfgVal' = v
  /\ Record([NoCall EXCEPT !.op = "ExternalWrite"])
  /\ SameSubscription
  /\ Frame

\* ------------------------------------------------------ "changed" handler
GattCharacteristic1Interface == "org.bluez.GattCharacteristic1"
Device1Interface == "org.bluez.Device1"

\* The characteristics whose Value changes are notified on the device.
Characteristics == {getUUID("TemperatureData"), getUUID("TemperatureConfig")}

\* The PropertyChangedEvents delivered to the handler; Path is the object the
\* change comes from, which the transport knows and the handler never reads.
Events ==
  [Path : Characteristics, Field : {"Value"}, Iface : {GattCharacteristic1Interface},
   Value : DataValues]
    \cup [Path : {"device"}, Field : {"Connected"}, Iface : {Device1Interface},
          Value : BOOLEAN]
    \cup [Path : {"device"}, Field : {"RSSI"}, Iface : {Device1Interface}, Value : {0}]

\* The name under which a run of the handler on ev is recorded.
EventName(ev) ==
  IF ev.Field = "Connected"
    THEN IF ev.Value THEN "changed:Connected=true" ELSE "changed:Connected=false"
    ELSE "changed:" \o ev.Field

\* The event makes the handler call connect(d):
\* `if changed.Field == "Connected" { conn := ...; if !conn {`.
ReconnectsOnAnyConnected(ev) == ev.Field = "Connected"
Reconnects(ev) == ev.Field = "Connected" /\ ~ev.Value

\* How the handler ends when connect(d) returned c:
\* `if err != nil { logger.Warningf(...) }`, then it returns.
ReconnectOutcomeFatal(c) == IF c.err # nil THEN Panic ELSE nil
ReconnectOutcome(c) == nil

\* One run of the handler NewSensorTag registers with d.On("changed", ...),
\* on event ev, dev.IsConnected() reporting isConn and dev.Connect()
\* succeeding iff ok.
Handler(ev, isConn, ok) ==
  LET base == [NoCall EXCEPT !.op = EventName(ev), !.runs = 1]
  IN IF ev.Field = "Value" /\ ev.Iface = GattCharacteristic1Interface
       THEN LET a == Ambient(ev.Value)
            IN IF a.panic
                 THEN [base EXCEPT !.err = Panic, !.plen = Len(ev.Value), !.path = ev.Path]
                 ELSE [base EXCEPT !.plen = Len(ev.Value), !.path = ev.Path,
                                   !.amb = SubSeq(ev.Value, 3, 4),
                                   !.value = a.value, !.emits = 1]
     ELSE IF Reconnects(ev)
       THEN LET c == connect(isConn, ok)
            IN [base EXCEPT !.err = ReconnectOutcome(c), !.connects = c.calls,
                            !.isConn = isConn, !.connErr = c.err]
     ELSE base

\* One run of the handler.
Changed(ev, isConn, ok) ==
  /\ handlers > 0
  /\ Alive
  /\ Record(Handler(ev, isConn, ok))
  /\ UNCHANGED cfgVal
  /\ SameSubscription
  /\ Frame

Next ==
  \/ \E isConn \in BOOLEAN, ok \in BOOLEAN : pc = "idle" /\ NewSensorTag(isConn, ok)
  \/ \E co \in LookupOutcomes, do \in LookupOutcomes, po \in LookupOutcomes :
       loadChars(co, do, po)
  \/ \E fail \in {"none", "cfgRead"} : DoIsEnabled(fail)
  \/ \E fail \in {"none", "cfgRead", "cfgWrite"} : DoEnable(fail)
  \/ \E fail \in {"none", "cfgRead", "cfgWrite"} : DoDisable(fail)
  \/ \E fail \in Failures :
       \E b \in (IF fail \in {"cfgRead", "dataRead"} THEN {<<>>} ELSE DataValues) :
         DoRead(fail, b)
  \/ \E fail \in NotifyFailures \ {"stopNotify"} : DoStartNotify(fail)
  \/ \E fail \in NotifyFailures \ {"register", "startNotify"} : DoStopNotify(fail)
  \/ \E v \in CfgValues : ExternalWrite(v)
  \/ \E ev \in Events :
       \E isConn \in (IF Reconnects(ev) THEN BOOLEAN ELSE {FALSE}),
          ok \in (IF Reconnects(ev) THEN BOOLEAN ELSE {FALSE}) :
         Changed(ev, isConn, ok)

Spec == Init /\ [][Next]_vars

\* ------------------------------------------------ several calls, one device
\* What IsConnected reports to a handler and whether its Connect succeeds.
ConnInputs == BOOLEAN \X BOOLEAN

RECURSIVE SumTo(_, _)
SumTo(f, n) == IF n = 0 THEN 0 ELSE f[n] + SumTo(f, n - 1)

\* d.Emit("changed", ev): the bus runs every registered handler on ev, handler
\* i seeing conn[i]; a panic in a run ends the process.
Emit(ev, conn) ==
  /\ handlers > 0
  /\ Alive
  /\ LET run == [i \in 1..handlers |-> Handler(ev, conn[i][1], conn[i][2])]
         ran == IF run[1].err = Panic THEN 1 ELSE handlers
     IN Record([run[1] EXCEPT !.op = "Emit:" \o EventName(ev),
                              !.runs = SumTo([i \in 1..ran |-> run[i].runs], ran),
                              !.emits = SumTo([i \in 1..ran |-> run[i].emits], ran),
                              !.connects = SumTo([i \in 1..ran |-> run[i].connects], ran)])
  /\ UNCHANGED cfgVal
  /\ SameSubscription
  /\ Frame

\* NewSensorTag is called again and again on one device, and the bus delivers
\* notifications to all the handlers the calls have registered.
CallsNext ==
  \/ \E isConn \in BOOLEAN, ok \in BOOLEAN : NewSensorTag(isConn, ok)
  \/ \E co \in LookupOutcomes, do \in LookupOutcomes, po \in LookupOutcomes :
       loadChars(co, do, po)
  \/ \E ev \in Events :
       \E conn \in (IF Reconnects(ev) THEN [1..MaxCalls -> ConnInputs]
                                       ELSE {[i \in 1..MaxCalls |-> <<FALSE, FALSE>>]}) :
         Emit(ev, conn)

SpecCalls == Init /\ [][CallsNext]_vars

\* ================================================================= claims
cfgUUID == getUUID("TemperatureConfig")

\* C1: a successful Enable() followed immediately by IsEnabled(), with no
\* I/O failure, returns true.
C1_EnableThenIsEnabled ==
  (prev.op = "Enable" /\ last.op = "IsEnabled" /\ last.err = nil) => last.enabled

\* C2: two consecutive successful Enable() calls perform at most one
\* WriteValue on the config attribute in total.
C2_EnableTwiceOneWrite ==
  (prev.op = "Enable" /\ last.op = "Enable" /\ last.err = nil)
    => prev.writes + last.writes <= 1

\* C3: after a successful Disable() byte 0 of the config attribute is 0 and
\* IsEnabled() returns false, and two consecutive Disable() calls perform at
\* most one config write in total.
C3_DisableMirror ==
  /\ (last.op = "Disable" /\ last.err = nil)
       => /\ Len(cfgVal) > 0
          /\ cfgVal[1] = 0
          /\ ~IsEnabled(cfgVal, "none").enabled
  /\ (prev.op = "Disable" /\ last.op = "Disable" /\ last.err = nil)
       => prev.writes + last.writes <= 1

\* C4: IsEnabled() returns true iff byte 0 of a non-empty config value
\* successfully read equals 1; a failed read returns the error and false.
C4_IsEnabledByteToggle ==
  last.op = "IsEnabled"
    => IF last.err = ErrTransport THEN ~last.enabled
       ELSE Len(cfgVal) > 0 => (last.err = nil /\ last.enabled = (cfgVal[1] = 1))

\* Every lookup made so far returned not-found.
AllNotFound == \A i \in DOMAIN lookups : lookups[i][2] = "notfound"

C5_Inv ==
  (pc # "idle" /\ AllNotFound)
    => /\ tries <= retry
       /\ Len(sleeps) = tries
       /\ \A i \in DOMAIN sleeps : sleeps[i] = 5 * i
       /\ \A i \in DOMAIN lookups : lookups[i][1] = cfgUUID
       /\ pc = "loading" => Len(lookups) = tries
       /\ pc = "done" => /\ tries = retry
                         /\ Len(lookups) = retry + 1
                         /\ sensorErr = ErrCfgNotFound
                         /\ ret.err = ErrCfgNotFound

\* C5: when every lookup returns not-found, resolution retries exactly
\* `retry` times, sleeping 5 s times the attempt number before each retry,
\* and then fails with the resolution error, after which no lookup and no
\* sleep happens.
C5_NotFoundRetries ==
  /\ []C5_Inv
  /\ [][pc = "done" => UNCHANGED <<lookups, sleeps, tries>>]_vars

C5_Witness ==
  pc = "done" /\ AllNotFound /\ sleeps = <<5, 10, 15>> /\ ret.err = ErrCfgNotFound

\* C6: newTemperatureSensor either returns an error or a sensor whose three
\* handles are all present.
C6_NeverPartial ==
  pc = "done"
    => \/ sensorErr # nil
       \/ /\ ret.Temperature.cfg # nil
          /\ ret.Temperature.data # nil
          /\ ret.Temperature.period # nil

\* C7: a lookup that returns a transport error is the last lookup:
\* resolution has returned that error, no sleep followed it and it did not
\* count as a try (tries counts the not-found config lookups before it).
C7_TransportErrorImmediate ==
  \A i \in DOMAIN lookups :
    lookups[i][2] = "error"
      => /\ i = Len(lookups)
         /\ pc = "done"
         /\ sensorErr = ErrTransport
         /\ ret.err = ErrTransport
         /\ tries = Cardinality({j \in DOMAIN lookups : lookups[j] = <<cfgUUID, "notfound">>})
         /\ Len(sleeps) = tries

C7_Witness ==
  /\ pc = "done"
  /\ tries >= 1
  /\ Len(lookups) >= 3
  /\ lookups[Len(lookups)][2] = "error"

\* C8: NewSensorTag returns no aggregate together with the error whenever
\* newTemperatureSensor failed, and an aggregate only when it succeeded, the
\* config attribute having been found.
C8_AllOrNothing ==
  /\ pc # "done" => ret.tag = nil
  /\ pc = "done"
       => /\ sensorErr # nil => (ret.tag = nil /\ ret.err = sensorErr)
          /\ ret.tag # nil
               => /\ sensorErr = nil
                  /\ ret.err = nil
                  /\ ret.Temperature.cfg # nil
                  /\ \E i \in DOMAIN lookups : lookups[i] = <<cfgUUID, "found">>

C8_Witness ==
  pc = "done" /\ sensorErr = ErrTransport /\ ret.tag = nil /\ ret.err = ErrTransport

\* C9: decoding a payload of fewer than 4 bytes, in Read() or in the
\* handler, yields a MalformedPayload error value and never panics.
C9_ShortPayloadIsError ==
  (last.plen >= 0 /\ last.plen < 4) => last.err = "MalformedPayload"

\* C10 as claimed: the handler calls Connect exactly once on every
\* Connected=false notification, whatever IsConnected() reports.
C10_ConnectExactlyOnce ==
  last.op = "changed:Connected=false" => last.connects = 1

\* C10 as amended: on a Connected=false notification the handler calls
\* Connect exactly once when IsConnected() reports false, and not at all when
\* it reports true.
C10_ConnectOnceUnlessConnected ==
  last.op = "changed:Connected=false"
    => last.connects = (IF last.isConn THEN 0 ELSE 1)

C10_Witness ==
  last.op = "changed:Connected=false" /\ ~last.isConn /\ last.connects = 1

\* The notifications of the link state.
ConnectedFalse ==
  [Path |-> "device", Field |-> "Connected", Iface |-> Device1Interface, Value |-> FALSE]
ConnectedTrue ==
  [Path |-> "device", Field |-> "Connected", Iface |-> Device1Interface, Value |-> TRUE]

\* The last handler run made a Connect call that failed.
FailedReconnect == last.op = "changed:Connected=false" /\ last.connErr # nil

C11_Inv ==
  FailedReconnect
    => /\ last.err = nil
       /\ Alive
       /\ ENABLED Changed(ConnectedFalse, FALSE, TRUE)

\* C11: when Connect fails inside the Connected=false handler, the handler
\* returns normally (no error, no panic), the aggregate, its sensor handles
\* and the registered handler are unchanged, and a later Connected=false
\* notification on a disconnected device makes a new Connect call.
C11_FailedReconnectContained ==
  /\ []C11_Inv
  /\ [][\A ok \in BOOLEAN :
          Changed(ConnectedFalse, FALSE, ok)
            => /\ UNCHANGED <<pc, ret, handlers, sensorErr, lookups, cfgVal>>
               /\ last'.connects = 1
               /\ last'.err = nil
               /\ last'.connErr = (IF ok THEN nil ELSE ErrTransport)]_vars

C11_Witness ==
  /\ FailedReconnect
  /\ last.connects = 1
  /\ last.err = nil
  /\ pc = "done"
  /\ ret.tag # nil

\* C12: a Connected=true notification makes no Connect call and no lookup
\* and leaves the aggregate and its sensor handles unchanged; the handles of
\* a returned aggregate never change afterwards, whatever notifications
\* arrive.
C12_ConnectedTrueNoReresolution ==
  /\ [][Changed(ConnectedTrue, FALSE, FALSE)
          => /\ last'.connects = 0
             /\ last'.err = nil
             /\ UNCHANGED <<pc, ret, handlers, tries, sleeps, lookups, sensorErr>>]_vars
  /\ [][ret.tag # nil => ret' = ret]_vars

C12_Witness ==
  /\ last.op = "changed:Connected=true"
  /\ last.connects = 0
  /\ pc = "done"
  /\ ret.tag # nil
  /\ ret.Temperature.cfg = cfgUUID

\* C13: after any sequence of StartNotify()/StopNotify() calls at most one
\* registration is active on the data attribute.
C13_AtMostOneRegistration == registrations <= 1

\* The sensor reads as disabled: IsEnabled() returns false and no error.
ReadsDisabled(val) ==
  LET e == IsEnabled(val, "none") IN e.err = nil /\ ~e.enabled

\* The step is a call of StartNotify or StopNotify (once NewSensorTag has
\* returned, every step is a call, and records it).
NotifyStep == pc = "done" /\ last'.op \in {"StartNotify", "StopNotify"}

\* C18: StartNotify() and StopNotify() call Register/StartNotify/StopNotify
\* on the data attribute only after their Enable() succeeded; when Enable()
\* fails they return its error and leave the subscription state unchanged;
\* StopNotify() on a sensor that reads as disabled writes the enable byte
\* first.
C18_EnableBeforeSubscription ==
  /\ [](last.op \in {"StartNotify", "StopNotify"} /\ last.enableErr # nil
          => /\ last.registers = 0
             /\ last.subCalls = 0
             /\ last.err = last.enableErr)
  /\ [][NotifyStep /\ last'.enableErr # nil => SameSubscription]_vars
  /\ [][NotifyStep /\ last'.op = "StopNotify" /\ ReadsDisabled(cfgVal)
          => IF last'.enableErr = nil
               THEN last'.writes = 1 /\ cfgVal' = <<1>>
               ELSE last'.subCalls = 0]_vars

C18_Witness ==
  /\ last.op = "StopNotify"
  /\ last.enableErr = ErrTransport
  /\ last.subCalls = 0
  /\ notifying

\* The reading a DataReading carries for the payload bytes amb = b[2:4]:
\* the little-endian 16-bit number, divided by 128.
Reading(amb) ==
  LET raw == amb[1] + 256 * amb[2]
  IN [whole |-> raw \div 128, frac128 |-> raw % 128]

\* C14: a handler run on a Value notification carrying a reading (4 bytes
\* or more) emits, before it returns, exactly one DataReading, the one
\* derived from that notification; so of two such notifications N1, N2
\* handled in that order, N1's single DataReading was emitted by the run
\* before the one that emits N2's.
C14_ReadingsInOrder ==
  (last.op = "changed:Value" /\ last.plen >= 4)
    => /\ last.emits = 1
       /\ last.value = Reading(last.amb)
       /\ last.err = nil
       /\ prev.op = "changed:Value" => prev.emits = 1

C14_Witness ==
  /\ prev.op = "changed:Value"
  /\ prev.emits = 1
  /\ last.op = "changed:Value"
  /\ last.emits = 1
  /\ last.amb = <<0, 16>>
  /\ last.value = [whole |-> 32, frac128 |-> 0]

\* C15: construction neither proceeds to the resolution of the sensor nor
\* returns an aggregate after the initial Connect has failed.
C15_ConnectedBeforeResolution ==
  (last.op = "NewSensorTag" /\ last.connErr # nil) => (pc # "loading" /\ ret.tag = nil)

\* C16: a Value notification that does not come from the data attribute of the
\* temperature sensor does not reach the decoder and produces no DataReading.
C16_OnlyDataAttributeDecoded ==
  (last.op = "changed:Value" /\ last.path # getUUID("TemperatureData"))
    => (last.plen = -1 /\ last.emits = 0 /\ last.err = nil)

\* C17: Enable, Disable and Read make at most one config read, one config
\* write and one data read; a failed I/O call is returned as the error of the
\* operation; after a failed config read there is no write and no data read,
\* after a failed config write in Read there is no data read.
C17_FailuresSurfacedWithoutRetry ==
  last.op \in {"Enable", "Disable", "Read"}
    => /\ last.reads <= 1 /\ last.writes <= 1 /\ last.dataReads <= 1
       /\ last.failed # "none" => last.err = ErrTransport
       /\ last.failed = "cfgRead" => (last.writes = 0 /\ last.dataReads = 0)
       /\ last.failed = "cfgWrite" => last.dataReads = 0

\* A Read whose config write failed.
C17_Witness ==
  /\ last.op = "Read" /\ last.failed = "cfgWrite"
  /\ last.reads = 1 /\ last.writes = 1 /\ last.dataReads = 0 /\ last.err = ErrTransport

\* The lookups of attribute `id` made so far.
LookupsOf(id) == {i \in DOMAIN lookups : lookups[i][1] = id}

\* The seconds slept so far.
RECURSIVE SumSeq(_)
SumSeq(q) == IF q = <<>> THEN 0 ELSE Head(q) + SumSeq(Tail(q))

\* C19: newTemperatureSensor makes at most retry + 1 = 4 lookups of the config
\* attribute, at most one lookup each of the data and period attributes and
\* only after the config attribute was found, and at most 3 sleeps of at most
\* 30 seconds in all.
C19_BoundedResolution ==
  /\ Cardinality(LookupsOf(cfgUUID)) <= retry + 1
  /\ Cardinality(LookupsOf(cfgUUID)) <= 4
  /\ Cardinality(LookupsOf(getUUID("TemperatureData"))) <= 1
  /\ Cardinality(LookupsOf(getUUID("TemperaturePeriod"))) <= 1
  /\ \A i \in DOMAIN lookups :
       lookups[i][1] # cfgUUID => \E j \in 1..(i - 1) : lookups[j] = <<cfgUUID, "found">>
  /\ Len(sleeps) <= 3
  /\ SumSeq(sleeps) <= 30

\* The config attribute is found at the last attempt, after 30 s of sleep.
C19_Witness ==
  /\ pc = "done"
  /\ Cardinality(LookupsOf(cfgUUID)) = 4
  /\ lookups[4] = <<cfgUUID, "found">>
  /\ Len(lookups) = 6
  /\ Len(sleeps) = 3 /\ SumSeq(sleeps) = 30

\* A step that begins a call of NewSensorTag.
CallBegins == pc # "loading" /\ pc' = "loading"

C20_Inv ==
  /\ pc = "loading" => handlers >= 1
  /\ (last.op = "Emit:changed:Connected=false")
       => (last.runs = handlers /\ last.connects <= handlers)
  /\ (last.op = "Emit:changed:Value" /\ last.plen >= 4)
       => (last.runs = handlers /\ last.emits = handlers)

\* C20: every call of NewSensorTag registers one more handler, before its
\* connect and resolution, and no step removes one, whether the call fails or
\* not; so after n calls a Connected=false notification runs n handlers and
\* makes up to n Connect calls, and a value notification carrying a reading
\* makes n DataReadings.
C20_HandlersAccumulate ==
  /\ []C20_Inv
  /\ [][handlers' = handlers + (IF CallBegins THEN 1 ELSE 0)]_vars

\* Two calls, the second one failed; one Connected=false notification made
\* two Connect calls.
C20_Witness ==
  /\ handlers = 2 /\ pc = "done" /\ ret.tag = nil
  /\ last.op = "Emit:changed:Connected=false" /\ last.connects = 2
====
